---- MODULE Spec2Model ----
(***************************************************************************)
(* Model of Date_to_calendar-local-html.py: the row loop of main() and the *)
(* date / time-range text parsers it calls.                                *)
(*                                                                         *)
(* Text is a sequence of characters, each character a one-symbol string.   *)
(* Characters that cannot be written in an ASCII module carry their code   *)
(* point as name (NBSP, ENDASH, EMDASH, MIDDOT).                           *)
(***************************************************************************)
EXTENDS Integers, Sequences, FiniteSets, TLC

VARIABLES
    pc,                  \* position of the running function
    table,               \* soup.select_one(...): NoTable or the rows of the tbody
    idx,                 \* number of rows of the table the loop has consumed
    current_month_name,  \* main: tracker month (None or a month name)
    current_year,        \* main: tracker year
    event_date,          \* main: the date parse_date last returned
    cal,                 \* main: events added to the calendar, in order
    created_events,      \* main: counter
    skipped_details,     \* main: skip records
    output,              \* files written to OUTPUT_PATH, in order
    reported,            \* the count printed by "Exported N events"
    arg,                 \* argument of a function called on its own
    ret                  \* its result

vars == <<pc, table, idx, current_month_name, current_year, event_date, cal,
          created_events, skipped_details, output, reported, arg, ret>>

\* Python's None where a text or a list is expected
None == <<"None">>

\* the values of locals and results before their first assignment
Unbound == [ok |-> FALSE, exc |-> "unbound"]
NoDate == [year |-> 0, month |-> 0, day |-> 0]

\* select_one(...) found no table
NoTable == [found |-> FALSE, rows |-> <<>>]

(***************************************************************************)
(* Characters                                                              *)
(***************************************************************************)
NBSP == "u00a0"
ENDASH == "u2013"
EMDASH == "u2014"
MIDDOT == "u00b7"

DigitChars == <<"0", "1", "2", "3", "4", "5", "6", "7", "8", "9">>
UpperChars == <<"A", "B", "C", "D", "E", "F", "G", "H", "I", "J", "K", "L", "M",
                "N", "O", "P", "Q", "R", "S", "T", "U", "V", "W", "X", "Y", "Z">>
LowerChars == <<"a", "b", "c", "d", "e", "f", "g", "h", "i", "j", "k", "l", "m",
                "n", "o", "p", "q", "r", "s", "t", "u", "v", "w", "x", "y", "z">>

Range(f) == {f[k] : k \in DOMAIN f}
Digit == Range(DigitChars)
Letter == Range(UpperChars) \cup Range(LowerChars)
Space == {" ", NBSP}

\* the least element of a set of integers, 0 for the empty set
MinOrZero(S) == IF S = {} THEN 0 ELSE CHOOSE p \in S : \A q \in S : p <= q

\* the greatest element of a non-empty set of integers
MaxOf(S) == CHOOSE p \in S : \A q \in S : p >= q

\* int() of one decimal digit
DigitVal(c) == (CHOOSE k \in DOMAIN DigitChars : DigitChars[k] = c) - 1

\* str.lower() on one character
LowerChar(c) ==
    IF c \in Range(UpperChars)
    THEN LowerChars[CHOOSE k \in DOMAIN UpperChars : UpperChars[k] = c]
    ELSE c

\* str.lower()
Lower(s) == [k \in DOMAIN s |-> LowerChar(s[k])]

\* the regex class \w
IsWordChar(c) == c \in Digit \cup Letter \cup {"_"}

\* the character at position p, "" outside the text
At(s, p) == IF p \in DOMAIN s THEN s[p] ELSE ""

\* the regex assertion \b at the gap before position p
WordBoundary(s, p) == IsWordChar(At(s, p - 1)) # IsWordChar(At(s, p))

\* s[p:q] in 1-based inclusive positions
Slice(s, p, q) == IF q < p THEN <<>> ELSE SubSeq(s, p, q)

(***************************************************************************)
(* A small regex engine.  A pattern is an ordered list of alternatives     *)
(* (the order the backtracking matcher tries them in), each alternative a  *)
(* sequence of character sets.                                             *)
(***************************************************************************)
Lit(w) == [k \in DOMAIN w |-> {w[k]}]

\* alternative alt matches s at p (ci: re.IGNORECASE; wb: \b on both sides)
MatchAt(s, p, alt, ci, wb) ==
    /\ p + Len(alt) - 1 <= Len(s)
    /\ \A k \in DOMAIN alt :
           (IF ci THEN LowerChar(s[p + k - 1]) ELSE s[p + k - 1]) \in alt[k]
    /\ wb => WordBoundary(s, p) /\ WordBoundary(s, p + Len(alt))

\* length of the first alternative among hits, 0 when there is none
FirstAltLen(alts, hits) == IF hits = {} THEN 0 ELSE Len(alts[MinOrZero(hits)])

\* length of the match the pattern gives at p, 0 when it does not match there
MatchLen(s, p, alts, ci, wb) ==
    FirstAltLen(alts, {a \in DOMAIN alts : MatchAt(s, p, alts[a], ci, wb)})

\* pattern.search(s): position of the leftmost match, 0 when there is none
SearchPos(s, alts, ci, wb) ==
    MinOrZero({p \in DOMAIN s : MatchLen(s, p, alts, ci, wb) > 0})

\* pattern.sub(repl, s): leftmost non-overlapping matches replaced
RECURSIVE SubFrom(_, _, _, _, _, _)
SubStep(s, p, alts, ci, wb, repl, n) ==
    IF n > 0 THEN repl \o SubFrom(s, p + n, alts, ci, wb, repl)
    ELSE <<s[p]>> \o SubFrom(s, p + 1, alts, ci, wb, repl)

SubFrom(s, p, alts, ci, wb, repl) ==
    IF p > Len(s) THEN <<>>
    ELSE SubStep(s, p, alts, ci, wb, repl, MatchLen(s, p, alts, ci, wb))

ReSub(s, alts, ci, wb, repl) == SubFrom(s, 1, alts, ci, wb, repl)

\* re.sub(r"\s+", " ", s)
RECURSIVE CollapseFrom(_, _)
CollapseFrom(s, p) ==
    IF p > Len(s) THEN <<>>
    ELSE (IF s[p] \notin Space THEN <<s[p]>>
          ELSE IF At(s, p - 1) \in Space THEN <<>> ELSE <<" ">>)
         \o CollapseFrom(s, p + 1)

CollapseSpaces(s) == CollapseFrom(s, 1)

\* s without what lies outside the positions of keep
TrimTo(s, keep) == IF keep = {} THEN <<>> ELSE Slice(s, MinOrZero(keep), MaxOf(keep))

\* str.strip(chars)
StripChars(s, chars) == TrimTo(s, {p \in DOMAIN s : s[p] \notin chars})

\* str.strip()
Strip(s) == StripChars(s, Space)

\* one character replaced by a text: re.sub(r"[...]", repl, s)
RECURSIVE ReplaceCharsFrom(_, _, _, _)
ReplaceCharsFrom(s, p, chars, repl) ==
    IF p > Len(s) THEN <<>>
    ELSE (IF s[p] \in chars THEN repl ELSE <<s[p]>>) \o ReplaceCharsFrom(s, p + 1, chars, repl)

ReplaceChars(s, chars, repl) == ReplaceCharsFrom(s, 1, chars, repl)

\* str.split(sep) for a one-character separator
RECURSIVE SplitFrom(_, _, _, _)
SplitFrom(s, p, sep, cur) ==
    IF p > Len(s) THEN <<cur>>
    ELSE IF s[p] = sep THEN <<cur>> \o SplitFrom(s, p + 1, sep, <<>>)
         ELSE SplitFrom(s, p + 1, sep, Append(cur, s[p]))

Split(s, sep) == SplitFrom(s, 1, sep, <<>>)

\* [x.strip() for x in xs if x.strip()]
RECURSIVE StripNonEmpty(_)
KeepNonEmpty(stripped, rest) ==
    (IF stripped = <<>> THEN <<>> ELSE <<stripped>>) \o StripNonEmpty(rest)

StripNonEmpty(xs) == IF xs = <<>> THEN <<>> ELSE KeepNonEmpty(Strip(Head(xs)), Tail(xs))

\* needle in haystack
Contains(haystack, needle) ==
    \E p \in 1..(Len(haystack) - Len(needle) + 1) :
        Slice(haystack, p, p + Len(needle) - 1) = needle

\* int() of a run of decimal digits
RECURSIVE ParseInt(_)
ParseInt(ds) ==
    IF ds = <<>> THEN 0
    ELSE 10 * ParseInt(Slice(ds, 1, Len(ds) - 1)) + DigitVal(ds[Len(ds)])

\* str() of a natural number
RECURSIVE IntToStr(_)
IntToStr(n) ==
    IF n < 10 THEN <<DigitChars[n + 1]>>
    ELSE IntToStr(n \div 10) \o <<DigitChars[(n % 10) + 1]>>

\* sep.join(texts)
RECURSIVE Join(_, _)
Join(texts, sep) ==
    IF texts = <<>> THEN <<>>
    ELSE IF Len(texts) = 1 THEN texts[1]
    ELSE texts[1] \o sep \o Join(Tail(texts), sep)

(***************************************************************************)
(* Dates and timestamps.  A date is [year, month, day]; a timestamp is a   *)
(* date with hour and minute.  All timestamps of a run share one tzinfo    *)
(* (DEFAULT_TIMEZONE or none), for which Python compares and subtracts the *)
(* wall-clock fields, so the zone is not part of the record.  A result    *)
(* past datetime.MAXYEAR (9999) and an int argument past the C int range   *)
(* raise OverflowError, which is not a ValueError.                         *)
(***************************************************************************)
MonthNames ==
    << <<"J", "a", "n", "u", "a", "r", "y">>,
       <<"F", "e", "b", "r", "u", "a", "r", "y">>,
       <<"M", "a", "r", "c", "h">>,
       <<"A", "p", "r", "i", "l">>,
       <<"M", "a", "y">>,
       <<"J", "u", "n", "e">>,
       <<"J", "u", "l", "y">>,
       <<"A", "u", "g", "u", "s", "t">>,
       <<"S", "e", "p", "t", "e", "m", "b", "e", "r">>,
       <<"O", "c", "t", "o", "b", "e", "r">>,
       <<"N", "o", "v", "e", "m", "b", "e", "r">>,
       <<"D", "e", "c", "e", "m", "b", "e", "r">> >>

\* calendar.month_abbr of the C locale
MonthAbbr(m) == Slice(MonthNames[m], 1, 3)

IsLeap(y) == y % 4 = 0 /\ (y % 100 # 0 \/ y % 400 = 0)

DaysInMonth(y, m) ==
    IF m = 2 THEN (IF IsLeap(y) THEN 29 ELSE 28)
    ELSE IF m \in {4, 6, 9, 11} THEN 30 ELSE 31

ValueError(m) == [ok |-> FALSE, exc |-> "ValueError", msg |-> m]

OverflowError(m) == [ok |-> FALSE, exc |-> "OverflowError", msg |-> m]

\* datetime(y, m, d).date(): ValueError outside the calendar
MakeDate(y, m, d) ==
    IF m \in 1..12 /\ d >= 1 /\ d <= DaysInMonth(y, m)
    THEN [ok |-> TRUE, date |-> [year |-> y, month |-> m, day |-> d]]
    ELSE ValueError("day is out of range for month")

NextDay(dt) ==
    IF dt.day < DaysInMonth(dt.year, dt.month) THEN [dt EXCEPT !.day = dt.day + 1]
    ELSE IF dt.month < 12 THEN [dt EXCEPT !.month = dt.month + 1, !.day = 1]
    ELSE [dt EXCEPT !.year = dt.year + 1, !.month = 1, !.day = 1]

RECURSIVE AddDays(_, _)
AddDays(dt, n) == IF n = 0 THEN dt ELSE AddDays(NextDay(dt), n - 1)

\* the timestamp on date dt at minute total of the day
AtMinute(dt, total) ==
    [year |-> dt.year, month |-> dt.month, day |-> dt.day,
     hour |-> total \div 60, minute |-> total % 60]

\* the timestamp total minutes after the midnight that starts dt's day
FromMidnight(dt, total) == AtMinute(AddDays(dt, total \div 1440), total % 1440)

\* a timestamp past datetime.MAXYEAR does not exist
InRange(dt) ==
    IF dt.year > 9999 THEN OverflowError("date value out of range")
    ELSE [ok |-> TRUE, dt |-> dt]

\* DatetimePlus as if the sum stayed on the day of dt
DatetimePlus_SameDay(dt, n) == InRange(AtMinute(dt, (dt.hour * 60 + dt.minute + n) % 1440))

\* datetime + timedelta(minutes=n), n >= 0
DatetimePlus(dt, n) == InRange(FromMidnight(dt, dt.hour * 60 + dt.minute + n))

LexLeq(ka, kb) ==
    \/ ka = kb
    \/ \E k \in DOMAIN ka : ka[k] < kb[k] /\ \A j \in 1..(k - 1) : ka[j] = kb[j]

\* a <= b on timestamps
DatetimeLeq(a, b) ==
    LexLeq(<<a.year, a.month, a.day, a.hour, a.minute>>,
           <<b.year, b.month, b.day, b.hour, b.minute>>)

RECURSIVE DaysBeforeMonth(_, _)
DaysBeforeMonth(y, m) ==
    IF m = 1 THEN 0 ELSE DaysBeforeMonth(y, m - 1) + DaysInMonth(y, m - 1)

\* days before January 1st of year y + 1
DaysBeforeYear(y) == 365 * y + (y \div 4) - (y \div 100) + (y \div 400)

\* date.toordinal()
ToOrdinal(dt) == DaysBeforeYear(dt.year - 1) + DaysBeforeMonth(dt.year, dt.month) + dt.day

\* (b - a) as a timedelta, in minutes
DatetimeMinus(b, a) ==
    (ToOrdinal(b) - ToOrdinal(a)) * 1440
    + (b.hour * 60 + b.minute) - (a.hour * 60 + a.minute)

(***************************************************************************)
(* Module constants                                                        *)
(***************************************************************************)
\* timedelta(hours=1), in minutes
DEFAULT_SINGLE_EVENT_DURATION == 60

MERIDIEM_PATTERN ==
    << <<{"a"}, {"."}, {"m"}, {"."}>>, <<{"a"}, {"."}, {"m"}>>,
       <<{"a"}, {"m"}, {"."}>>, <<{"a"}, {"m"}>>,
       <<{"p"}, {"."}, {"m"}, {"."}>>, <<{"p"}, {"."}, {"m"}>>,
       <<{"p"}, {"m"}, {"."}>>, <<{"p"}, {"m"}>> >>

TZ_LABEL_PATTERN ==
    << Lit(<<"c", "e", "t">>), Lit(<<"c", "e", "s", "t">>), Lit(<<"g", "m", "t">>),
       Lit(<<"u", "t", "c">>) \o <<{"+", "-"}, Digit, Digit>>,
       Lit(<<"u", "t", "c">>) \o <<{"+", "-"}, Digit>>,
       Lit(<<"u", "t", "c">>),
       Lit(<<"m", "e", "z">>), Lit(<<"m", "e", "s", "z">>) >>

RANGE_CONNECTOR_PATTERN == << Lit(<<"t", "o">>), Lit(<<"b", "i", "s">>) >>

EXTRA_LABEL_PATTERN ==
    << Lit(<<"h", "r", "s">>), Lit(<<"h", "r">>),
       Lit(<<"h", "o", "u", "r", "s">>), Lit(<<"h", "o", "u", "r">>),
       Lit(<<"u", "h", "r">>),
       Lit(<<"o", "'", "c", "l", "o", "c", "k">>),
       Lit(<<"h">>) >>

\* the optional group (?::(?P<minute>\d{2}))? at position q
TimeCoreMinute(s, q) ==
    IF At(s, q) = ":" /\ At(s, q + 1) \in Digit /\ At(s, q + 2) \in Digit
    THEN Slice(s, q + 1, q + 2) ELSE None

\* the match that starts at digit position p with an hour of n digits
TimeCoreAt(s, p, n) ==
    IF p = 0 THEN [found |-> FALSE]
    ELSE [found |-> TRUE, hour |-> Slice(s, p, p + n - 1), minute |-> TimeCoreMinute(s, p + n)]

TimeCoreFrom(s, p) == TimeCoreAt(s, p, IF At(s, p + 1) \in Digit THEN 2 ELSE 1)

\* TIME_CORE_PATTERN.search(s): the leftmost 1-2 digit hour and its ":MM"
TIME_CORE_PATTERN(s) == TimeCoreFrom(s, MinOrZero({p \in DOMAIN s : s[p] \in Digit}))

(***************************************************************************)
(* Time parsing                                                            *)
(***************************************************************************)
\* re.sub(r"(?<=\d)X(?=\d)", ":", s) for X one of chars
BetweenDigitsToColon(s, chars, ci) ==
    [p \in DOMAIN s |->
        IF /\ (IF ci THEN LowerChar(s[p]) ELSE s[p]) \in chars
           /\ At(s, p - 1) \in Digit
           /\ At(s, p + 1) \in Digit
        THEN ":" ELSE s[p]]

sanitize_time_fragment(fragment) ==
    LET f1 == ReSub(fragment, <<Lit(<<"p", ".", "m", ".">>)>>, FALSE, FALSE, <<"p", "m">>)
        f2 == ReSub(f1, <<Lit(<<"a", ".", "m", ".">>)>>, FALSE, FALSE, <<"a", "m">>)
        f3 == BetweenDigitsToColon(f2, {"h"}, TRUE)
        f4 == BetweenDigitsToColon(f3, {"."}, FALSE)
        f5 == ReSub(f4, TZ_LABEL_PATTERN, TRUE, TRUE, <<>>)
        f6 == ReSub(f5, EXTRA_LABEL_PATTERN, TRUE, TRUE, <<>>)
        f7 == ReSub(f6, <<Lit(<<"m", "i", "d", "d", "a", "y">>)>>, FALSE, FALSE,
                    <<"n", "o", "o", "n">>)
        f8 == ReplaceChars(f7, {MIDDOT}, <<" ">>)
        f9 == ReplaceChars(f8, {"(", ")"}, <<" ">>)
    IN  Strip(CollapseSpaces(f9))

\* line 174: the label of the match found at position p
MeridiemAt(text, p) ==
    IF p = 0 THEN None
    ELSE IF LowerChar(text[p]) = "p" THEN <<"p", "m">> ELSE <<"a", "m">>

extract_meridiem_label(text) == MeridiemAt(text, SearchPos(text, MERIDIEM_PATTERN, TRUE, FALSE))

convert_to_24_hour(hour, meridiem) ==
    IF meridiem = None THEN hour % 24
    ELSE IF meridiem = <<"a", "m">> THEN (IF hour % 24 = 12 THEN 0 ELSE hour % 24)
    ELSE (IF hour % 24 = 12 THEN 12 ELSE (hour % 24) + 12)

\* ResolveHour as if a fragment without a marker never took the default
ResolveHour_NoDefault(hour, minute, meridiem, default_meridiem, prefer_12_hour) ==
    [ok |-> TRUE, hour |-> convert_to_24_hour(hour, meridiem), minute |-> minute]

\* lines 205-217
ResolveHour(hour, minute, meridiem, default_meridiem, prefer_12_hour) ==
    [ok |-> TRUE,
     hour |-> convert_to_24_hour(hour,
                  IF /\ meridiem = None
                     /\ (meridiem # None \/ prefer_12_hour)
                     /\ default_meridiem # None
                     /\ hour <= 12
                  THEN default_meridiem ELSE meridiem),
     minute |-> minute]

\* lines 197-203
ParseCore(match, meridiem, default_meridiem, prefer_12_hour) ==
    IF ~match.found THEN ValueError("Could not parse time")
    ELSE ResolveHour(ParseInt(match.hour),
                     IF match.minute = None THEN 0 ELSE ParseInt(match.minute),
                     meridiem, default_meridiem, prefer_12_hour)

\* lines 188-203
ParseSanitized(sanitized, default_meridiem, prefer_12_hour) ==
    IF sanitized = <<>> THEN ValueError("Empty time fragment")
    ELSE IF Lower(sanitized) = <<"n", "o", "o", "n">>
    THEN [ok |-> TRUE, hour |-> 12, minute |-> 0]
    ELSE IF Lower(sanitized) = <<"m", "i", "d", "n", "i", "g", "h", "t">>
    THEN [ok |-> TRUE, hour |-> 0, minute |-> 0]
    ELSE ParseCore(TIME_CORE_PATTERN(sanitized), extract_meridiem_label(sanitized),
                   default_meridiem, prefer_12_hour)

parse_time_fragment(fragment, default_meridiem, prefer_12_hour) ==
    ParseSanitized(sanitize_time_fragment(fragment), default_meridiem, prefer_12_hour)

\* time(hour=hour % 24, minute=minute) raises ValueError for minute > 59
assemble_datetime(on_date, hour, minute) ==
    IF minute > 59 THEN ValueError("minute must be in 0..59")
    ELSE [ok |-> TRUE,
          dt |-> [year |-> on_date.year, month |-> on_date.month,
                  day |-> on_date.day, hour |-> hour % 24, minute |-> minute]]

looks_like_time_range(text) ==
    \/ /\ \E p \in DOMAIN text : text[p] \in {"-", ENDASH, EMDASH}
       /\ \E p \in DOMAIN text : text[p] \in Digit
    \/ Contains(Lower(text), <<" ", "t", "o", " ">>)
    \/ Contains(Lower(text), <<" ", "b", "i", "s", " ">>)

\* line 246
PartsOf(normalized) ==
    IF normalized = <<>> THEN <<>> ELSE StripNonEmpty(Split(normalized, "-"))

\* lines 237-246: the non-empty parts of the normalized range text
RangeParts(time_range) ==
    LET n1 == ReSub(time_range, RANGE_CONNECTOR_PATTERN, TRUE, TRUE, <<"-">>)
        n2 == ReplaceChars(n1, {ENDASH, EMDASH}, <<"-">>)
        n3 == ReSub(n2, TZ_LABEL_PATTERN, TRUE, TRUE, <<>>)
        n4 == ReSub(n3, EXTRA_LABEL_PATTERN, TRUE, TRUE, <<>>)
    IN  PartsOf(StripChars(CollapseSpaces(n4), {" ", "-"}))

\* return start_dt, end_dt
WithEnd(start, end_dt) ==
    IF ~end_dt.ok THEN end_dt
    ELSE [ok |-> TRUE, start |-> start, end |-> end_dt.dt]

\* lines 255-256
SingleEvent(start_dt) ==
    IF ~start_dt.ok THEN start_dt
    ELSE WithEnd(start_dt.dt, DatetimePlus(start_dt.dt, DEFAULT_SINGLE_EVENT_DURATION))

\* line 254
SingleFrom(st, on_date) ==
    IF ~st.ok THEN st ELSE SingleEvent(assemble_datetime(on_date, st.hour, st.minute))

\* lines 249-253
ParseSingle(start_part, on_date, start_hint) ==
    SingleFrom(parse_time_fragment(start_part, start_hint, start_hint # None), on_date)

\* RangeEvent as if the rollover test were end_dt < start_dt
RangeEvent_StrictRollover(start_dt, end_dt) ==
    IF ~start_dt.ok THEN start_dt
    ELSE IF ~end_dt.ok THEN end_dt
    ELSE IF DatetimeLeq(end_dt.dt, start_dt.dt) /\ end_dt.dt # start_dt.dt
    THEN WithEnd(start_dt.dt, DatetimePlus(end_dt.dt, 1440))
    ELSE WithEnd(start_dt.dt, end_dt)

\* lines 278-281
RangeEvent(start_dt, end_dt) ==
    IF ~start_dt.ok THEN start_dt
    ELSE IF ~end_dt.ok THEN end_dt
    ELSE IF DatetimeLeq(end_dt.dt, start_dt.dt)
    THEN WithEnd(start_dt.dt, DatetimePlus(end_dt.dt, 1440))
    ELSE WithEnd(start_dt.dt, end_dt)

\* lines 275-276
RangeFrom(st, en, on_date) ==
    IF ~st.ok THEN st
    ELSE IF ~en.ok THEN en
    ELSE RangeEvent(assemble_datetime(on_date, st.hour, st.minute),
                    assemble_datetime(on_date, en.hour, en.minute))

\* ParseRange as if only the start side took the other side's marker
ParseRange_EndOwnHint(start_part, end_part, on_date, start_hint, end_hint) ==
    RangeFrom(parse_time_fragment(start_part,
                                  IF start_hint # None THEN start_hint ELSE end_hint,
                                  start_hint # None \/ end_hint # None),
              parse_time_fragment(end_part, end_hint, end_hint # None),
              on_date)

\* lines 264-273
ParseRange(start_part, end_part, on_date, start_hint, end_hint) ==
    RangeFrom(parse_time_fragment(start_part,
                                  IF start_hint # None THEN start_hint ELSE end_hint,
                                  start_hint # None \/ end_hint # None),
              parse_time_fragment(end_part,
                                  IF end_hint # None THEN end_hint ELSE start_hint,
                                  start_hint # None \/ end_hint # None),
              on_date)

\* lines 243-263
ParseParts(parts, on_date) ==
    IF parts = <<>> THEN ValueError("Empty time range")
    ELSE IF Len(parts) = 1
    THEN ParseSingle(parts[1], on_date, extract_meridiem_label(parts[1]))
    ELSE IF Len(parts) < 2 THEN ValueError("Unexpected time range")
    ELSE ParseRange(parts[1], parts[2], on_date,
                    extract_meridiem_label(parts[1]), extract_meridiem_label(parts[2]))

parse_time_components(time_range, on_date) == ParseParts(RangeParts(time_range), on_date)

(***************************************************************************)
(* datetime.strptime.  A format is a sequence of directives: "B", "b",     *)
(* "d", "m", "Y", "y" for %B, %b, %d, %m, %Y, %y, " " for a whitespace run *)
(* (the regex \s+) and "." for the literal dot.  The match is the one the  *)
(* compiled regex finds from the start of the text; in each format used    *)
(* here every directive is followed by a separator or by the end, so the   *)
(* first alternative that matches is the only one.                         *)
(***************************************************************************)
NonZeroDigit == Digit \ {"0"}

StrpPattern(d) ==
    CASE d = "B" -> [m \in 1..12 |-> Lit(Lower(MonthNames[m]))]
      [] d = "b" -> [m \in 1..12 |-> Lit(Lower(MonthAbbr(m)))]
      [] d = "d" -> << <<{"3"}, {"0", "1"}>>, <<{"1", "2"}, Digit>>, <<{"0"}, NonZeroDigit>>,
                       <<NonZeroDigit>>, <<{" "}, NonZeroDigit>> >>
      [] d = "m" -> << <<{"1"}, {"0", "1", "2"}>>, <<{"0"}, NonZeroDigit>>, <<NonZeroDigit>> >>
      [] d = "Y" -> << <<Digit, Digit, Digit, Digit>> >>
      [] d = "y" -> << <<Digit, Digit>> >>
      [] d = "." -> << <<{"."}>> >>

\* the month a matched %B / %b text names
MonthOf(text, abbr) ==
    CHOOSE m \in 1..12 :
        Lower(text) = Lower(IF abbr THEN MonthAbbr(m) ELSE MonthNames[m])

\* length of the whitespace run at p
RECURSIVE SpaceRun(_, _)
SpaceRun(s, p) == IF At(s, p) \in Space THEN 1 + SpaceRun(s, p + 1) ELSE 0

\* %y: values below 69 are in the 2000s
TwoDigitYear(n) == IF n < 69 THEN 2000 + n ELSE 1900 + n

StrpStore(acc, d, text) ==
    CASE d = "B" -> [acc EXCEPT !.month = MonthOf(text, FALSE)]
      [] d = "b" -> [acc EXCEPT !.month = MonthOf(text, TRUE)]
      [] d = "d" -> [acc EXCEPT !.day = ParseInt(StripChars(text, {" "}))]
      [] d = "m" -> [acc EXCEPT !.month = ParseInt(text)]
      [] d = "Y" -> [acc EXCEPT !.year = ParseInt(text)]
      [] d = "y" -> [acc EXCEPT !.year = TwoDigitYear(ParseInt(text))]
      [] d = "." -> acc

\* StrpEnd as if text left over after the format were accepted
StrpEnd_Prefix(data, p, acc) == [ok |-> TRUE, fields |-> acc]

\* the format is used up: the whole text must be, too
StrpEnd(data, p, acc) ==
    IF p = Len(data) + 1 THEN [ok |-> TRUE, fields |-> acc]
    ELSE ValueError("unconverted data remains")

RECURSIVE StrpMatch(_, _, _, _)
\* a directive whose pattern matched n characters at p
StrpDirective(data, p, fmt, acc, n) ==
    IF n = 0 THEN ValueError("does not match format")
    ELSE StrpMatch(data, p + n, Tail(fmt), StrpStore(acc, Head(fmt), Slice(data, p, p + n - 1)))

\* a whitespace run of n characters at p
StrpSpace(data, p, fmt, acc, n) ==
    IF n = 0 THEN ValueError("does not match format")
    ELSE StrpMatch(data, p + n, Tail(fmt), acc)

StrpMatch(data, p, fmt, acc) ==
    IF fmt = <<>> THEN StrpEnd(data, p, acc)
    ELSE IF Head(fmt) = " "
    THEN StrpSpace(data, p, fmt, acc, SpaceRun(data, p))
    ELSE StrpDirective(data, p, fmt, acc,
                       MatchLen(data, p, StrpPattern(Head(fmt)), TRUE, FALSE))

StrpDate(m) ==
    IF ~m.ok THEN m
    ELSE IF m.fields.year < 1 THEN ValueError("year is out of range")
    ELSE MakeDate(m.fields.year, m.fields.month, m.fields.day)

\* datetime.strptime(data, fmt): the date fields, the year 1900 unless given
strptime(data, fmt) ==
    StrpDate(StrpMatch(data, 1, fmt, [year |-> 1900, month |-> 1, day |-> 1]))

\* parsed.replace(year=current_year) for the formats without a year
Redate(parsed, keep, cur_year) ==
    IF ~parsed.ok \/ keep THEN parsed
    ELSE MakeDate(cur_year, parsed.date.month, parsed.date.day)

\* the first format of fmts that parses data; keepYear[k]: format k carries the
\* year (a ValueError of replace is caught like one of strptime)
RECURSIVE TryFormats(_, _, _, _)
TryNext(data, fmts, keepYear, cur_year, dated) ==
    IF dated.ok THEN dated
    ELSE TryFormats(data, Tail(fmts), Tail(keepYear), cur_year)

TryFormats(data, fmts, keepYear, cur_year) ==
    IF fmts = <<>> THEN ValueError("no format matched")
    ELSE TryNext(data, fmts, keepYear, cur_year,
                 Redate(strptime(data, Head(fmts)), Head(keepYear), cur_year))

\* lines 128, 134, 141: the format families in the order they are tried
DateFormats ==
    << <<"B", " ", "d", " ", "Y">>, <<"b", " ", "d", " ", "Y">>,
       <<"d", " ", "B", " ", "Y">>, <<"d", " ", "b", " ", "Y">>,
       <<"B", " ", "d">>, <<"b", " ", "d">>, <<"d", " ", "B">>, <<"d", " ", "b">>,
       <<"d", ".", "m", ".", "Y">>, <<"d", ".", "m", ".", "y">>, <<"d", ".", "m", ".">> >>

DateFormatsKeepYear ==
    <<TRUE, TRUE, TRUE, TRUE, FALSE, FALSE, FALSE, FALSE, TRUE, TRUE, FALSE>>

WeekdayPattern ==
    << Lit(<<"m", "o", "n", "d", "a", "y">>), Lit(<<"t", "u", "e", "s", "d", "a", "y">>),
       Lit(<<"w", "e", "d", "n", "e", "s", "d", "a", "y">>),
       Lit(<<"t", "h", "u", "r", "s", "d", "a", "y">>), Lit(<<"f", "r", "i", "d", "a", "y">>),
       Lit(<<"s", "a", "t", "u", "r", "d", "a", "y">>), Lit(<<"s", "u", "n", "d", "a", "y">>) >>

\* lines 110-118
CleanDateText(date_text) ==
    CollapseSpaces(Strip(ReSub(
        CollapseSpaces(Strip(ReplaceChars(date_text, {NBSP, ","}, <<" ">>))),
        WeekdayPattern, TRUE, TRUE, <<>>)))

\* str.isdigit()
IsDigits(s) == s # <<>> /\ \A p \in DOMAIN s : s[p] \in Digit

\* lines 122-125
DateCandidates(cleaned, cur_month) ==
    (IF cur_month # None /\ cur_month # <<>>
        /\ ~Contains(Lower(cleaned), Lower(cur_month))
     THEN << cur_month \o <<" ">> \o cleaned >> ELSE <<>>)
    \o <<cleaned>>

RECURSIVE TryCandidates(_, _)
NextCandidate(candidates, cur_year, r) ==
    IF r.ok THEN r ELSE TryCandidates(Tail(candidates), cur_year)

\* lines 127-147
TryCandidates(candidates, cur_year) ==
    IF candidates = <<>> THEN ValueError("Unable to parse date")
    ELSE NextCandidate(candidates, cur_year,
             TryFormats(Head(candidates), DateFormats, DateFormatsKeepYear, cur_year))

RECURSIVE StripZeros(_)
StripZeros(s) == IF s # <<>> /\ Head(s) = "0" THEN StripZeros(Tail(s)) ELSE s

\* a decimal numeral without leading zeros is at most 2147483647
FitsDigits(z) ==
    \/ Len(z) < 10
    \/ /\ Len(z) = 10
       /\ LexLeq([k \in DOMAIN z |-> DigitVal(z[k])], <<2, 1, 4, 7, 4, 8, 3, 6, 4, 7>>)

\* int(text) fits the C int that datetime() converts its arguments to
FitsCInt(text) == FitsDigits(StripZeros(text))

\* lines 151-152: datetime() converts the day before it checks the range
DayOfMonth(month_dt, cur_year, cleaned) ==
    IF ~month_dt.ok THEN month_dt
    ELSE IF ~FitsCInt(cleaned) THEN OverflowError("signed integer is greater than maximum")
    ELSE MakeDate(cur_year, month_dt.date.month, ParseInt(cleaned))

\* lines 149-154
ParseFallback(cleaned, cur_month, cur_year, r) ==
    IF r.ok THEN r
    ELSE IF IsDigits(cleaned) /\ cur_month # None /\ cur_month # <<>>
    THEN DayOfMonth(strptime(cur_month, <<"B">>), cur_year, cleaned)
    ELSE r

\* lines 119-154
ParseCleaned(cleaned, cur_month, cur_year) ==
    IF cleaned = <<>> THEN ValueError("Date text is empty")
    ELSE ParseFallback(cleaned, cur_month, cur_year,
                       TryCandidates(DateCandidates(cleaned, cur_month), cur_year))

parse_date(date_text, cur_month, cur_year) ==
    ParseCleaned(CleanDateText(date_text), cur_month, cur_year)

\* the match of re.search(r"\b(20\d{2})\b", sanitized) found at p
YearAt(sanitized, p) ==
    IF p = 0 THEN [found |-> FALSE]
    ELSE [found |-> TRUE, year |-> ParseInt(Slice(sanitized, p, p + 3))]

SearchYear(sanitized) ==
    YearAt(sanitized, SearchPos(sanitized, << <<{"2"}, {"0"}, Digit, Digit>> >>, FALSE, TRUE))

RECURSIVE FirstMonthToken(_)
\* lines 85-100: the token read as %B, then as %b
MonthTokenPick(full, short, rest) ==
    IF full.ok THEN MonthNames[full.date.month]
    ELSE IF short.ok THEN MonthNames[short.date.month]
    ELSE FirstMonthToken(rest)

MonthTokenStep(token_clean, rest) ==
    IF token_clean = <<>> THEN FirstMonthToken(rest)
    ELSE MonthTokenPick(strptime(token_clean, <<"B">>), strptime(token_clean, <<"b">>), rest)

\* lines 78-100: the first token that is a month name, full or abbreviated
FirstMonthToken(tokens) ==
    IF tokens = <<>> THEN None
    ELSE MonthTokenStep(StripChars(Head(tokens), {".", " "}), Tail(tokens))

\* lines 70-106
HeadingResult(full, short, month_name, year_match, fallback_year) ==
    IF full.ok THEN <<MonthNames[full.date.month], full.date.year>>
    ELSE IF short.ok THEN <<MonthNames[short.date.month], short.date.year>>
    ELSE IF month_name # None
    THEN <<month_name, IF year_match.found THEN year_match.year ELSE fallback_year>>
    ELSE IF year_match.found THEN <<None, year_match.year>>
    ELSE <<None, fallback_year>>

ExtractFrom(sanitized, fallback_year) ==
    IF sanitized = <<>> THEN <<None, fallback_year>>
    ELSE HeadingResult(strptime(sanitized, <<"B", " ", "Y">>),
                       strptime(sanitized, <<"b", " ", "Y">>),
                       FirstMonthToken(StripNonEmpty(Split(sanitized, " "))),
                       SearchYear(sanitized), fallback_year)

\* returns <<month name or None, year>>
extract_month_and_year(text, fallback_year) ==
    ExtractFrom(CollapseSpaces(Strip(ReplaceChars(text, {ENDASH, EMDASH, ",", "/"}, <<" ">>))),
                fallback_year)

(***************************************************************************)
(* Event assembly                                                          *)
(***************************************************************************)
\* clean_text(node): the node's stripped strings joined by one space
clean_text(node) == Join(node, <<" ">>)

\* DurationParts as if the minutes were given only when there are no hours
DurationParts_DropMinutes(hours, minutes) ==
    (IF hours # 0 THEN << IntToStr(hours) \o <<"h">> >> ELSE <<>>)
    \o (IF hours = 0 THEN << IntToStr(minutes) \o <<"m">> >> ELSE <<>>)

\* lines 287-292
DurationParts(hours, minutes) ==
    (IF hours # 0 THEN << IntToStr(hours) \o <<"h">> >> ELSE <<>>)
    \o (IF minutes # 0 \/ hours = 0 THEN << IntToStr(minutes) \o <<"m">> >> ELSE <<>>)

\* delta is the timedelta in minutes
format_duration(delta) == Join(DurationParts(delta \div 60, delta % 60), <<" ">>)

SpeakerLabel == <<"S", "p", "e", "a", "k", "e", "r", ":", " ">>
VenueLabel == <<"V", "e", "n", "u", "e", ":", " ">>
LinkLabel == <<"L", "i", "n", "k", ":", " ">>
DurationLabel == <<"D", "u", "r", "a", "t", "i", "o", "n", ":", " ">>

build_description(speaker, venue, link, duration_text) ==
    Join((IF speaker # <<>> THEN <<SpeakerLabel \o speaker>> ELSE <<>>)
         \o (IF venue # <<>> THEN <<VenueLabel \o venue>> ELSE <<>>)
         \o (IF link # <<>> THEN <<LinkLabel \o link>> ELSE <<>>)
         \o (IF duration_text # <<>> THEN <<DurationLabel \o duration_text>> ELSE <<>>),
         <<"\n">>)

(***************************************************************************)
(* main(): one table row.  A row is [cells, strong_texts, links]: cells is *)
(* the row's td cells, each the sequence of its stripped strings;          *)
(* strong_texts the texts of its strong elements; links the hrefs of its   *)
(* a[href] elements, of which select_one takes the first.                  *)
(***************************************************************************)
HasDigit(text) == \E p \in DOMAIN text : text[p] \in Digit

\* next((v for v in values if pred(v)), default) with pred = has a digit
RECURSIVE FirstWithDigit(_, _)
FirstWithDigit(values, default) ==
    IF values = <<>> THEN default
    ELSE IF HasDigit(Head(values)) THEN Head(values)
    ELSE FirstWithDigit(Tail(values), default)

\* list.index(value)
IndexOf(values, value) == CHOOSE k \in DOMAIN values :
                              values[k] = value /\ \A j \in 1..(k - 1) : values[j] # value

\* [v for v in values if looks_like_time_range(v)]
RECURSIVE TimeRangeLike(_)
TimeRangeLike(values) ==
    IF values = <<>> THEN <<>>
    ELSE (IF looks_like_time_range(Head(values)) THEN <<Head(values)>> ELSE <<>>)
         \o TimeRangeLike(Tail(values))

IsHeadingRow(row) == row.strong_texts # <<>> /\ row.links = <<>>

RECURSIVE TrackHeadings(_, _, _)
\* TrackNext as if the year of a heading were dropped
TrackNext_KeepYear(texts, month, year, c) ==
    TrackHeadings(Tail(texts), IF c[1] # None THEN c[1] ELSE month, year)

\* lines 338-341: the tracker after one heading text gave the candidate c
TrackNext(texts, month, year, c) ==
    TrackHeadings(Tail(texts), IF c[1] # None THEN c[1] ELSE month,
                  IF c[2] # year THEN c[2] ELSE year)

\* lines 336-341: the tracker after the heading texts, as <<month, year>>
TrackHeadings(texts, month, year) ==
    IF texts = <<>> THEN <<month, year>>
    ELSE TrackNext(texts, month, year, extract_month_and_year(Head(texts), year))

date_strings(row) == row.cells[1]

date_token(row) == FirstWithDigit(date_strings(row), date_strings(row)[1])

\* lines 363-368
TrailingStrings(strings, token) == Slice(strings, IndexOf(strings, token) + 1, Len(strings))

\* lines 370-376
CandidatesFrom(ranges, fallback) ==
    IF ranges # <<>> THEN ranges
    ELSE IF fallback # <<>> THEN <<fallback>> ELSE <<>>

\* lines 368-376
time_candidates(row) ==
    CandidatesFrom(TimeRangeLike(TrailingStrings(date_strings(row), date_token(row))),
                   FirstWithDigit(TrailingStrings(date_strings(row), date_token(row)), <<>>))

\* lines 394-407
EventOf(title, speaker, venue, link, start_dt, end_dt) ==
    [name |-> IF title = <<>>
              THEN <<"U", "n", "t", "i", "t", "l", "e", "d", " ", "E", "v", "e", "n", "t">>
              ELSE title,
     begin |-> start_dt,
     end |-> end_dt,
     description |-> build_description(speaker, venue, link,
                                       format_duration(DatetimeMinus(end_dt, start_dt))),
     location |-> IF venue # <<>> THEN venue ELSE None,
     url |-> IF link # <<>> THEN link ELSE None]

\* lines 389-407
MakeEvent(row, start_dt, end_dt) ==
    EventOf(IF Len(row.cells) > 2 THEN clean_text(row.cells[3]) ELSE <<>>,
            IF Len(row.cells) > 4 THEN clean_text(row.cells[5]) ELSE <<>>,
            IF Len(row.cells) > 6 THEN clean_text(row.cells[7])
            ELSE clean_text(row.cells[Len(row.cells)]),
            IF row.links # <<>> THEN row.links[1] ELSE <<>>,
            start_dt, end_dt)

\* lines 383-410
ParsedRowOutcome(row, on_date, time_text, times) ==
    IF times.ok
    THEN [kind |-> "event", event_date |-> on_date,
          event |-> MakeEvent(row, times.start, times.end)]
    ELSE IF times.exc = "ValueError"
    THEN [kind |-> "time parse failed", event_date |-> on_date,
          detail |-> [reason |-> "time parse failed", text |-> time_text, exc |-> times.msg]]
    ELSE [kind |-> "time parse raised", event_date |-> on_date, exc |-> times.exc]

\* lines 368-387
TimedRowOutcome(row, token, on_date, candidates) ==
    IF candidates = <<>>
    THEN [kind |-> "missing time range", event_date |-> on_date,
          detail |-> [reason |-> "missing time range", text |-> token, exc |-> ""]]
    ELSE ParsedRowOutcome(row, on_date, candidates[1],
                          parse_time_components(candidates[1], on_date))

\* lines 357-361
DatedRowOutcome(row, token, parsed) ==
    IF parsed.ok THEN TimedRowOutcome(row, token, parsed.date, time_candidates(row))
    ELSE IF parsed.exc = "ValueError"
    THEN [kind |-> "date parse failed",
          detail |-> [reason |-> "date parse failed", text |-> token, exc |-> parsed.msg]]
    ELSE [kind |-> "date parse raised", exc |-> parsed.exc]

\* lines 328-410: what the loop body does with one row under a tracker
RowOutcome(row, month, year) ==
    IF row.cells = <<>> THEN [kind |-> "no cells"]
    ELSE IF IsHeadingRow(row)
    THEN [kind |-> "heading", tracker |-> TrackHeadings(row.strong_texts, month, year)]
    ELSE IF date_strings(row) = <<>> \/ ~HasDigit(Join(date_strings(row), <<" ">>))
    THEN [kind |-> "no date"]
    ELSE DatedRowOutcome(row, date_token(row), parse_date(date_token(row), month, year))

(***************************************************************************)
(* Inputs of main(): the rows a table is built from                        *)
(***************************************************************************)
MaxRows == 3

\* a heading row "<Month> <Year>": emphasized text, no hyperlink
HeadingRow(m, y) ==
    [cells |-> << << MonthNames[m] \o <<" ">> \o IntToStr(y) >> >>,
     strong_texts |-> << MonthNames[m] \o <<" ">> \o IntToStr(y) >>,
     links |-> <<>>]

\* a full data row whose date cell holds a bare day number and a time text
BareDayRow(d, time_text) ==
    [cells |-> << <<IntToStr(d), time_text>>, <<>>,
                  << <<"T", "a", "l", "k">> >>, <<>>,
                  << <<"D", "r">>, <<"X">> >>, <<>>,
                  << <<"H", "a", "l", "l">> >> >>,
     strong_texts |-> <<>>,
     links |-> << <<"h", "t", "t", "p", ":", "/", "/", "x">> >>]

\* a short data row: weekday, bare day number and time text; emphasized, linked
WeekdayRow(d, time_text) ==
    [cells |-> << << <<"T", "u", "e">>, IntToStr(d), time_text >>, <<>>, <<>> >>,
     strong_texts |-> << <<"T", "u", "e">> >>,
     links |-> << <<>> >>]

\* a data row whose date cell holds the given strings
DateCellRow(strings) ==
    [cells |-> << strings, <<>>, << <<"T", "a", "l", "k">> >> >>,
     strong_texts |-> <<>>, links |-> <<>>]

\* a row of th cells only
HeaderRow == [cells |-> <<>>, strong_texts |-> << <<"D", "a", "t", "e">> >>, links |-> <<>>]

Text_1400_1530 == <<"1", "4", ":", "0", "0", " ", "-", " ", "1", "5", ":", "3", "0">>
Text_2_3pm == <<"2", " ", "-", " ", "3", "p", "m">>
Text_2330 == <<"2", "3", ":", "3", "0">>
Text_1075_11 == <<"1", "0", ":", "7", "5", " ", "-", " ", "1", "1">>
Text_12June2024 == <<"1", "2", " ", "J", "u", "n", "e", " ", "2", "0", "2", "4">>
Text_0706 == <<"0", "7", ".", "0", "6", ".">>
Text_31129999 == <<"3", "1", ".", "1", "2", ".", "9", "9", "9", "9">>
Text_LongNumber == <<"4", "9", "1", "5", "1", "1", "2", "3", "4", "5", "6">>
Text_TBA == <<"T", "B", "A">>

HeadingRows == {HeadingRow(5, 2024), HeadingRow(2, 2025)}

BareDayRows == {BareDayRow(7, Text_1400_1530), WeekdayRow(30, Text_2_3pm)}

ExplicitDateRow == DateCellRow(<<Text_12June2024, Text_2330>>)
BadTimeRow == DateCellRow(<<Text_0706, Text_1075_11>>)
NoTimeRow == DateCellRow(<< <<"8">> >>)
NoDateRow == DateCellRow(<<Text_TBA>>)
\* a single time in the last hour of the last day datetime can hold
LastDayRow == DateCellRow(<<Text_31129999, Text_2330>>)
\* a digit string past the C int range where the day is expected
LongNumberRow == DateCellRow(<<Text_LongNumber, Text_1400_1530>>)

RowInputs ==
    HeadingRows \cup BareDayRows
    \cup {HeaderRow, ExplicitDateRow, BadTimeRow, NoTimeRow, NoDateRow,
          LastDayRow, LongNumberRow}

Tables == UNION {[1..n -> RowInputs] : n \in 0..MaxRows}

\* datetime.now().year
NowYears == {2024}

TrackerYears == {2024, 2025}

\* the tracker month as an index: 0 for None
TrackerMonth(k) == IF k = 0 THEN None ELSE MonthNames[k]

MonthIndex(name) == IF name = None THEN 0 ELSE CHOOSE m \in 1..12 : MonthNames[m] = name

\* RowOutcome tabulated over the rows and tracker values of the model
row_outcome ==
    [row \in RowInputs, k \in 0..12, y \in TrackerYears |-> RowOutcome(row, TrackerMonth(k), y)]

(***************************************************************************)
(* main()                                                                  *)
(***************************************************************************)
Row == table.rows[idx + 1]

Outcome == row_outcome[Row, MonthIndex(current_month_name), current_year]

InLoop == pc = "loop" /\ idx < Len(table.rows)

\* lines 317-319
Abort ==
    /\ pc = "start" /\ ~table.found
    /\ pc' = "aborted"
    /\ UNCHANGED <<table, idx, current_month_name, current_year, event_date, cal,
                   created_events, skipped_details, output, reported, arg, ret>>

\* lines 321-325
Begin ==
    /\ pc = "start" /\ table.found
    /\ pc' = "loop"
    /\ cal' = <<>>
    /\ current_month_name' = None
    /\ current_year' \in NowYears
    /\ created_events' = 0
    /\ skipped_details' = <<>>
    /\ UNCHANGED <<table, idx, event_date, output, reported, arg, ret>>

\* lines 328-330
SkipNoCells ==
    /\ InLoop /\ Outcome.kind = "no cells"
    /\ idx' = idx + 1
    /\ UNCHANGED <<pc, table, current_month_name, current_year, event_date, cal,
                   created_events, skipped_details, output, reported, arg, ret>>

\* lines 335-342
UpdateTracker ==
    /\ InLoop /\ Outcome.kind = "heading"
    /\ current_month_name' = Outcome.tracker[1]
    /\ current_year' = Outcome.tracker[2]
    /\ idx' = idx + 1
    /\ UNCHANGED <<pc, table, event_date, cal, created_events, skipped_details,
                   output, reported, arg, ret>>

\* lines 344-350
SkipNoDate ==
    /\ InLoop /\ Outcome.kind = "no date"
    /\ idx' = idx + 1
    /\ UNCHANGED <<pc, table, current_month_name, current_year, event_date, cal,
                   created_events, skipped_details, output, reported, arg, ret>>

\* lines 357-361
DateParseFailed ==
    /\ InLoop /\ Outcome.kind = "date parse failed"
    /\ skipped_details' = Append(skipped_details, Outcome.detail)
    /\ idx' = idx + 1
    /\ UNCHANGED <<pc, table, current_month_name, current_year, event_date, cal,
                   created_events, output, reported, arg, ret>>

\* line 358: an exception that is not a ValueError leaves main()
DateParseRaised ==
    /\ InLoop /\ Outcome.kind = "date parse raised"
    /\ pc' = "raised"
    /\ UNCHANGED <<table, idx, current_month_name, current_year, event_date, cal,
                   created_events, skipped_details, output, reported, arg, ret>>

\* lines 377-379
MissingTimeRange ==
    /\ InLoop /\ Outcome.kind = "missing time range"
    /\ event_date' = Outcome.event_date
    /\ skipped_details' = Append(skipped_details, Outcome.detail)
    /\ idx' = idx + 1
    /\ UNCHANGED <<pc, table, current_month_name, current_year, cal,
                   created_events, output, reported, arg, ret>>

\* lines 383-387
TimeParseFailed ==
    /\ InLoop /\ Outcome.kind = "time parse failed"
    /\ event_date' = Outcome.event_date
    /\ skipped_details' = Append(skipped_details, Outcome.detail)
    /\ idx' = idx + 1
    /\ UNCHANGED <<pc, table, current_month_name, current_year, cal,
                   created_events, output, reported, arg, ret>>

\* line 384: an exception that is not a ValueError leaves main()
TimeParseRaised ==
    /\ InLoop /\ Outcome.kind = "time parse raised"
    /\ event_date' = Outcome.event_date
    /\ pc' = "raised"
    /\ UNCHANGED <<table, idx, current_month_name, current_year, cal,
                   created_events, skipped_details, output, reported, arg, ret>>

\* lines 389-410; cal.events holds one entry per add (events differ by uid)
AddEvent ==
    /\ InLoop /\ Outcome.kind = "event"
    /\ event_date' = Outcome.event_date
    /\ cal' = Append(cal, Outcome.event)
    /\ created_events' = created_events + 1
    /\ idx' = idx + 1
    /\ UNCHANGED <<pc, table, current_month_name, current_year, skipped_details,
                   output, reported, arg, ret>>

\* lines 412-415: the file holds the serialized calendar
WriteOutput ==
    /\ pc = "loop" /\ idx = Len(table.rows)
    /\ output' = Append(output, cal)
    /\ reported' = created_events
    /\ pc' = "done"
    /\ UNCHANGED <<table, idx, current_month_name, current_year, event_date, cal,
                   created_events, skipped_details, arg, ret>>

Init ==
    /\ pc = "start"
    /\ table \in {NoTable} \cup {[found |-> TRUE, rows |-> t] : t \in Tables}
    /\ idx = 0
    /\ current_month_name = None
    /\ current_year = 0
    /\ event_date = NoDate
    /\ cal = <<>>
    /\ created_events = 0
    /\ skipped_details = <<>>
    /\ output = <<>>
    /\ reported = 0
    /\ arg = Unbound
    /\ ret = Unbound

Next ==
    \/ Abort
    \/ Begin
    \/ SkipNoCells
    \/ UpdateTracker
    \/ SkipNoDate
    \/ DateParseFailed
    \/ DateParseRaised
    \/ MissingTimeRange
    \/ TimeParseFailed
    \/ TimeParseRaised
    \/ AddEvent
    \/ WriteOutput

Spec == Init /\ [][Next]_vars

(***************************************************************************)
(* parse_time_components on its own.  A time-range text is built from      *)
(* sides [hour, minute, mark]: the hour numeral, ":MM" unless minute is    *)
(* -1, and the meridiem marker text (empty for none), joined by a          *)
(* connector.                                                              *)
(***************************************************************************)
MaxHourText == 24
MaxMinuteText == 60
MaxRangeHour == 13
MaxParts == 3

NoMark == <<>>
MarkAM == <<"a", "m">>
MarkPM == <<"p", "m">>

TwoDigits(n) == IF n < 10 THEN <<"0">> \o IntToStr(n) ELSE IntToStr(n)

SideText(side) ==
    IntToStr(side.hour)
    \o (IF side.minute = -1 THEN <<>> ELSE <<":">> \o TwoDigits(side.minute))
    \o side.mark

RangeText(parts, sep) == Join([k \in DOMAIN parts |-> SideText(parts[k])], sep)

\* a single time: every hour numeral and minute, and some with a marker
SingleSides ==
    [hour : 0..MaxHourText, minute : -1..MaxMinuteText, mark : {NoMark}]
    \cup [hour : 0..MaxHourText, minute : {-1, 30}, mark : {MarkAM, MarkPM}]

\* the sides of a two-part range
StartSides == [hour : 0..MaxRangeHour, minute : {-1, 30}, mark : {NoMark, MarkAM, MarkPM}]
EndSides == [hour : 0..MaxRangeHour, minute : {-1}, mark : {NoMark, MarkAM, MarkPM}]

\* the sides of a range of two or more parts
FewSides ==
    [hour : {9, 10, 11}, minute : {-1}, mark : {NoMark}]
    \cup {[hour |-> 11, minute |-> -1, mark |-> MarkPM]}

Dash == <<" ", "-", " ">>
Connectors == {Dash, <<ENDASH>>, <<" ", "t", "o", " ">>}

Date_2024_05_01 == [year |-> 2024, month |-> 5, day |-> 1]
Date_2024_12_31 == [year |-> 2024, month |-> 12, day |-> 31]
Date_9999_12_31 == [year |-> 9999, month |-> 12, day |-> 31]

TimeCall(parts, sep, on_date) ==
    [parts |-> parts, sep |-> sep, time_range |-> RangeText(parts, sep), event_date |-> on_date]

TimeInputs ==
    {TimeCall(<<s>>, Dash, Date_2024_05_01) : s \in SingleSides}
    \cup {TimeCall(<<s>>, Dash, d) :
              s \in [hour : {22, 23}, minute : {-1, 30}, mark : {NoMark}],
              d \in {Date_2024_12_31, Date_9999_12_31}}
    \cup {TimeCall(<<s, e>>, Dash, Date_2024_05_01) : s \in StartSides, e \in EndSides}
    \cup {TimeCall(p, c, Date_2024_05_01) :
              p \in UNION {[1..n -> FewSides] : n \in 2..MaxParts}, c \in Connectors}

\* start_dt, end_dt = parse_time_components(time_text, event_date)
CallParseTime ==
    /\ pc = "call"
    /\ ret' = parse_time_components(arg.time_range, arg.event_date)
    /\ pc' = "returned"
    /\ UNCHANGED <<table, idx, current_month_name, current_year, event_date, cal,
                   created_events, skipped_details, output, reported, arg>>

InitTime ==
    /\ pc = "call"
    /\ arg \in TimeInputs
    /\ ret = Unbound
    /\ table = NoTable
    /\ idx = 0
    /\ current_month_name = None
    /\ current_year = 0
    /\ event_date = NoDate
    /\ cal = <<>>
    /\ created_events = 0
    /\ skipped_details = <<>>
    /\ output = <<>>
    /\ reported = 0

NextTime == CallParseTime

SpecTime == InitTime /\ [][NextTime]_vars

(***************************************************************************)
(* parse_date on its own.  A date text is built from a form, a day, a      *)
(* month and a year; tracker is the index of current_month_name (0: None). *)
(***************************************************************************)
DateForms ==
    {"d Month", "Month d", "d Mon", "Mon d", "d Month yyyy", "Mon d, yyyy",
     "dd.mm.", "dd.mm.yyyy", "dd.mm.yy", "Weekday, d Month", "d"}

DateDays == {7, 29, 31}

DateText(form, d, m, y) ==
    CASE form = "d Month" -> IntToStr(d) \o <<" ">> \o MonthNames[m]
      [] form = "Month d" -> MonthNames[m] \o <<" ">> \o IntToStr(d)
      [] form = "d Mon" -> IntToStr(d) \o <<" ">> \o MonthAbbr(m)
      [] form = "Mon d" -> MonthAbbr(m) \o <<" ">> \o IntToStr(d)
      [] form = "d Month yyyy" ->
             IntToStr(d) \o <<" ">> \o MonthNames[m] \o <<" ">> \o IntToStr(y)
      [] form = "Mon d, yyyy" ->
             MonthAbbr(m) \o <<" ">> \o IntToStr(d) \o <<",", " ">> \o IntToStr(y)
      [] form = "dd.mm." -> TwoDigits(d) \o <<".">> \o TwoDigits(m) \o <<".">>
      [] form = "dd.mm.yyyy" ->
             TwoDigits(d) \o <<".">> \o TwoDigits(m) \o <<".">> \o IntToStr(y)
      [] form = "dd.mm.yy" ->
             TwoDigits(d) \o <<".">> \o TwoDigits(m) \o <<".">> \o TwoDigits(y % 100)
      [] form = "Weekday, d Month" ->
             <<"F", "r", "i", "d", "a", "y", ",", " ">> \o IntToStr(d) \o <<" ">> \o MonthNames[m]
      [] form = "d" -> IntToStr(d)

DateCall(form, d, m, y, k, cur_year) ==
    [form |-> form, day |-> d, month |-> m, year |-> y, tracker |-> k,
     date_text |-> DateText(form, d, m, y),
     current_month_name |-> TrackerMonth(k), current_year |-> cur_year]

DateInputs ==
    {DateCall(form, d, m, 2025, k, 2024) :
         form \in DateForms, d \in DateDays, m \in 1..12, k \in 0..12}

\* event_date = parse_date(date_token, current_month_name, current_year)
CallParseDate ==
    /\ pc = "call"
    /\ ret' = parse_date(arg.date_text, arg.current_month_name, arg.current_year)
    /\ pc' = "returned"
    /\ UNCHANGED <<table, idx, current_month_name, current_year, event_date, cal,
                   created_events, skipped_details, output, reported, arg>>

InitDate ==
    /\ pc = "call"
    /\ arg \in DateInputs
    /\ ret = Unbound
    /\ table = NoTable
    /\ idx = 0
    /\ current_month_name = None
    /\ current_year = 0
    /\ event_date = NoDate
    /\ cal = <<>>
    /\ created_events = 0
    /\ skipped_details = <<>>
    /\ output = <<>>
    /\ reported = 0

NextDate == CallParseDate

SpecDate == InitDate /\ [][NextDate]_vars

(***************************************************************************)
(* The event of one row on its own: lines 389-407 for a start and an end   *)
(* that lies delta minutes after it.                                       *)
(***************************************************************************)
MaxDelta == 1440

EventStarts ==
    {[year |-> 2024, month |-> 5, day |-> 1, hour |-> 0, minute |-> 0],
     [year |-> 2024, month |-> 12, day |-> 31, hour |-> 23, minute |-> 30]}

EventRows == {BareDayRow(7, Text_1400_1530), ExplicitDateRow}

EventCall(row, start_dt, delta) ==
    [row |-> row, start |-> start_dt, delta |-> delta, end |-> DatetimePlus(start_dt, delta).dt]

EventInputs ==
    {EventCall(row, start_dt, delta) :
         row \in EventRows, start_dt \in EventStarts, delta \in 1..MaxDelta}

\* event = Event(name=title, begin=start_dt, end=end_dt) and its fields
CallMakeEvent ==
    /\ pc = "call"
    /\ ret' = MakeEvent(arg.row, arg.start, arg.end)
    /\ pc' = "returned"
    /\ UNCHANGED <<table, idx, current_month_name, current_year, event_date, cal,
                   created_events, skipped_details, output, reported, arg>>

InitEvent ==
    /\ pc = "call"
    /\ arg \in EventInputs
    /\ ret = Unbound
    /\ table = NoTable
    /\ idx = 0
    /\ current_month_name = None
    /\ current_year = 0
    /\ event_date = NoDate
    /\ cal = <<>>
    /\ created_events = 0
    /\ skipped_details = <<>>
    /\ output = <<>>
    /\ reported = 0

NextEvent == CallMakeEvent

SpecEvent == InitEvent /\ [][NextEvent]_vars

(***************************************************************************)
(* Properties                                                              *)
(***************************************************************************)
\* a is strictly earlier than b, field by field
Before(a, b) ==
    \/ a.year < b.year
    \/ a.year = b.year /\ a.month < b.month
    \/ a.year = b.year /\ a.month = b.month /\ a.day < b.day
    \/ a.year = b.year /\ a.month = b.month /\ a.day = b.day /\ a.hour < b.hour
    \/ /\ a.year = b.year /\ a.month = b.month /\ a.day = b.day /\ a.hour = b.hour
       /\ a.minute < b.minute

OnDate(dt, on_date) ==
    dt.year = on_date.year /\ dt.month = on_date.month /\ dt.day = on_date.day

\* the calendar day that follows each event date of TimeInputs
DayAfter(on_date) ==
    IF on_date = Date_2024_05_01 THEN [year |-> 2024, month |-> 5, day |-> 2]
    ELSE IF on_date = Date_2024_12_31 THEN [year |-> 2025, month |-> 1, day |-> 1]
    ELSE [year |-> 10000, month |-> 1, day |-> 1]

\* C1: whenever parse_time_components returns (a single time or a range), the
\* returned end timestamp is strictly later than the returned start timestamp.
C1_EndAfterStart == pc = "returned" /\ ret.ok => Before(ret.start, ret.end)

\* a two-part range whose end was rolled over to the next day
C1_RolledOver ==
    /\ pc = "returned" /\ ret.ok /\ Len(arg.parts) = 2
    /\ OnDate(ret.start, arg.event_date)
    /\ OnDate(ret.end, DayAfter(arg.event_date))

Text_11pm_1 == <<"1", "1", "p", "m", " ", "-", " ", "1">>

C2_Case == pc = "returned" /\ arg.time_range = Text_11pm_1 /\ arg.event_date = Date_2024_05_01

\* C2 as stated: "11pm - 1" on 2024-05-01 yields start 2024-05-01T23:00 and end
\* 2024-05-02T01:00.
C2_EndAtOne ==
    C2_Case =>
        /\ ret.ok
        /\ ret.start = [year |-> 2024, month |-> 5, day |-> 1, hour |-> 23, minute |-> 0]
        /\ ret.end = [year |-> 2024, month |-> 5, day |-> 2, hour |-> 1, minute |-> 0]

\* C2 amended: "11pm - 1" on 2024-05-01 yields start 2024-05-01T23:00 and end
\* 2024-05-02T13:00: the unmarked 1 takes the start's pm, is read as 13:00 and,
\* not being after 23:00, is rolled over to the next day.
C2_EndAtThirteen ==
    C2_Case =>
        /\ ret.ok
        /\ ret.start = [year |-> 2024, month |-> 5, day |-> 1, hour |-> 23, minute |-> 0]
        /\ ret.end = [year |-> 2024, month |-> 5, day |-> 2, hour |-> 13, minute |-> 0]

\* "11pm - 1" on 2024-05-01 has been parsed
C2_Parsed == C2_Case /\ ret.ok /\ ret.start.hour = 23

\* b is exactly one hour after a, for a on the date on_date
OneHourLater(a, b, on_date) ==
    /\ OnDate(a, on_date)
    /\ b.minute = a.minute
    /\ IF a.hour < 23 THEN OnDate(b, on_date) /\ b.hour = a.hour + 1
       ELSE OnDate(b, DayAfter(on_date)) /\ b.hour = 0

\* C3: a time text of exactly one part whose minute is a minute of the hour
\* parses (before the last day of datetime), and whenever a single time parses
\* the returned end is the start plus exactly one hour, on the next day for a
\* start at 23:xx.
C3_SingleTimeOneHour ==
    pc = "returned" /\ Len(arg.parts) = 1 =>
        /\ arg.parts[1].minute <= 59 /\ arg.event_date.year < 9999 => ret.ok
        /\ ret.ok => OneHourLater(ret.start, ret.end, arg.event_date)

\* a single time in the last hour of the year
C3_LateEvening ==
    /\ pc = "returned" /\ Len(arg.parts) = 1 /\ arg.event_date = Date_2024_12_31
    /\ ret.ok /\ ret.start.hour = 23 /\ ret.start.minute = 30
    /\ ret.end = [year |-> 2025, month |-> 1, day |-> 1, hour |-> 0, minute |-> 30]

\* the 24-hour value of the numeral h from 1 to 12 under a marker
Expected24(h, mark) ==
    IF mark = MarkAM THEN (IF h = 12 THEN 0 ELSE h)
    ELSE (IF h = 12 THEN 12 ELSE h + 12)

C4_Sides(s, e) ==
    /\ ret.ok
    /\ s.mark # NoMark /\ s.hour \in 1..12 => ret.start.hour = Expected24(s.hour, s.mark)
    /\ e.mark # NoMark /\ e.hour \in 1..12 => ret.end.hour = Expected24(e.hour, e.mark)
    /\ s.mark = NoMark /\ e.mark # NoMark /\ s.hour \in 1..12 =>
           ret.start.hour = Expected24(s.hour, e.mark)
    /\ e.mark = NoMark /\ s.mark # NoMark /\ e.hour \in 1..12 =>
           ret.end.hour = Expected24(e.hour, s.mark)

\* C4: in a two-part range a side that is a numeral from 1 to 12 without a
\* marker is converted with the marker of the other side, whichever side that
\* is, and a side with a marker of its own is converted with its own marker.
C4_MeridiemInherited ==
    pc = "returned" /\ Len(arg.parts) = 2 => C4_Sides(arg.parts[1], arg.parts[2])

\* "7pm - 9": the marker is on the start only and the end is read as 21
C4_MarkerOnStart ==
    /\ pc = "returned" /\ Len(arg.parts) = 2
    /\ arg.parts[1] = [hour |-> 7, minute |-> -1, mark |-> MarkPM]
    /\ arg.parts[2] = [hour |-> 9, minute |-> -1, mark |-> NoMark]
    /\ ret.ok /\ ret.start.hour = 19 /\ ret.end.hour = 21

\* C8 as stated: a time text of more than two parts fails with the
\* unexpected-range error.
C8_MoreThanTwoPartsFail ==
    pc = "returned" /\ Len(arg.parts) > 2 =>
        ~ret.ok /\ ret.exc = "ValueError" /\ ret.msg = "Unexpected time range"

(* Spec: the rows of the table by what they were built as *)
IsHeadingInput(row) == row \in HeadingRows

HeadingOf(row) ==
    CHOOSE my \in (1..12) \X TrackerYears : row = HeadingRow(my[1], my[2])

\* the last heading row among the first n rows, 0 when there is none
LastHeading(n) ==
    IF \E j \in 1..n : IsHeadingInput(table.rows[j])
    THEN CHOOSE j \in 1..n : /\ IsHeadingInput(table.rows[j])
                             /\ \A k \in (j + 1)..n : ~IsHeadingInput(table.rows[k])
    ELSE 0

\* the day number of a row whose date token is a bare day number, else 0
BareDayOf(row) ==
    IF row = BareDayRow(7, Text_1400_1530) THEN 7
    ELSE IF row = WeekdayRow(30, Text_2_3pm) THEN 30
    ELSE IF row = NoTimeRow THEN 8
    ELSE 0

TrackerIs(my) == current_month_name = MonthNames[my[1]] /\ current_year = my[2]

\* the tracker holds the month and year of the last heading row processed
C5_TrackerHolds ==
    pc \in {"loop", "done", "raised"} /\ LastHeading(idx) # 0 =>
        TrackerIs(HeadingOf(table.rows[LastHeading(idx)]))

ResolvesUnder(d, my) ==
    d >= 1 /\ d <= DaysInMonth(my[2], my[1]) =>
        event_date' = [year |-> my[2], month |-> my[1], day |-> d] /\ pc' = "loop"

\* a bare-day row after a heading resolves in the heading's month and year
C5_BareDayStep ==
    InLoop /\ BareDayOf(Row) # 0 /\ LastHeading(idx) # 0 =>
        ResolvesUnder(BareDayOf(Row), HeadingOf(table.rows[LastHeading(idx)]))

\* only a heading row changes the tracker once the loop runs
C5_TrackerStep ==
    pc = "loop" /\ <<current_month_name, current_year>>' # <<current_month_name, current_year>>
        => InLoop /\ IsHeadingInput(Row)

\* C5: after a heading row "<Month> <Year>" the tracker holds that month and
\* year; every later row whose date token is a bare day number valid for the
\* month resolves to that year, month and day, whatever rows lie between, until
\* the next heading row; and only heading rows change the tracker.
C5_HeadingContext ==
    [](C5_TrackerHolds) /\ [][C5_BareDayStep /\ C5_TrackerStep]_vars

\* "May 2024", a skipped row, then the bare day 7: resolved to 2024-05-07
C5_ResolvedAfterSkip ==
    /\ pc = "loop" /\ idx = 3
    /\ table.rows[1] = HeadingRow(5, 2024)
    /\ table.rows[2] = BadTimeRow
    /\ table.rows[3] = BareDayRow(7, Text_1400_1530)
    /\ event_date = [year |-> 2024, month |-> 5, day |-> 7]
    /\ Len(cal) = 1 /\ Len(skipped_details) = 1

\* rows whose date or time text does not parse, or that have no time text
FailingRows == {BadTimeRow, NoTimeRow, LastDayRow, LongNumberRow}

\* C6: a data row whose date or time-range parse fails, or that has no time
\* candidate, adds no event and exactly one skip record, leaves the tracker
\* alone and lets the loop go on to the next row.
C6_FailedRowSkipped ==
    [][InLoop /\ Row \in FailingRows =>
           /\ cal' = cal /\ created_events' = created_events
           /\ Len(skipped_details') = Len(skipped_details) + 1
           /\ <<current_month_name, current_year>>' = <<current_month_name, current_year>>
           /\ idx' = idx + 1 /\ pc' = "loop"]_vars

\* C9: the output is written at most once and only after the last row; a run
\* with a table ends with the output written once, a run without one with
\* none.
C9_WrittenOnceAtEnd ==
    /\ Len(output) <= 1
    /\ output # <<>> => pc = "done" /\ idx = Len(table.rows) /\ output[1] = cal
    /\ pc = "aborted" => output = <<>>
    /\ table.found /\ pc \notin {"start", "loop"} => Len(output) = 1

(* SpecDate *)
\* C10: a date text that names a month other than the tracker month and
\* parses gives a date in the month it names.
C10_ExplicitMonthWins ==
    pc = "returned" /\ arg.form # "d" /\ arg.tracker # 0 /\ arg.tracker # arg.month /\ ret.ok
        => ret.date.month = arg.month /\ ret.date.day = arg.day

\* "7 June" under the tracker month May is the 7th of June
C10_JuneUnderMay ==
    /\ pc = "returned" /\ arg.form = "d Month" /\ arg.tracker = 5 /\ arg.month = 6
    /\ arg.day = 7 /\ ret.ok
    /\ ret.date = [year |-> 2024, month |-> 6, day |-> 7]

(* SpecEvent *)
\* the lines of a description that start with "Duration: ", without the label
RECURSIVE DurationLines(_)
DurationLines(lines) ==
    IF lines = <<>> THEN <<>>
    ELSE (IF Slice(Head(lines), 1, Len(DurationLabel)) = DurationLabel
          THEN <<Slice(Head(lines), Len(DurationLabel) + 1, Len(Head(lines)))>>
          ELSE <<>>)
         \o DurationLines(Tail(lines))

\* "<H>h", "<M>m" or "<H>h <M>m" read back as minutes, -1 for any other text
TokenMinutes(token) ==
    IF Len(token) < 2 \/ ~IsDigits(Slice(token, 1, Len(token) - 1)) THEN -1
    ELSE IF token[Len(token)] = "h" THEN 60 * ParseInt(Slice(token, 1, Len(token) - 1))
    ELSE IF token[Len(token)] = "m" THEN ParseInt(Slice(token, 1, Len(token) - 1))
    ELSE -1

ReadDuration(tokens) ==
    IF Len(tokens) = 1 THEN TokenMinutes(tokens[1])
    ELSE IF /\ Len(tokens) = 2
            /\ tokens[1][Len(tokens[1])] = "h" /\ tokens[2][Len(tokens[2])] = "m"
            /\ TokenMinutes(tokens[1]) >= 0 /\ TokenMinutes(tokens[2]) >= 0
    THEN TokenMinutes(tokens[1]) + TokenMinutes(tokens[2])
    ELSE -1

DurationRead(lines) ==
    IF Len(lines) # 1 THEN -1 ELSE ReadDuration(Split(lines[1], " "))

\* C7: the one "Duration:" line of an event's description, read back as hours
\* and minutes, is the minutes from the event's begin to its end.
C7_DurationRoundTrip ==
    pc = "returned" =>
        /\ ret.begin = arg.start /\ ret.end = arg.end
        /\ DurationRead(DurationLines(Split(ret.description, "\n"))) = arg.delta

\* an event of 90 minutes says "Duration: 1h 30m"
C7_NinetyMinutes ==
    /\ pc = "returned" /\ arg.delta = 90
    /\ DurationLines(Split(ret.description, "\n")) = << <<"1", "h", " ", "3", "0", "m">> >>

====
